---------------------------- MODULE Spec2Model ----------------------------
(***************************************************************************)
(* BioMask client: the fuzzy extractor (lib/fuzzy_extractor/extractor.py), *)
(* the passphrase protection of helper data (lib/passphrase/encryption.py) *)
(* and the key generation / restoration calls of biomask/client.py.        *)
(*                                                                         *)
(* Bytes are integers 0..255, byte strings are sequences of bytes, text    *)
(* strings are sequences of character codes.  A call that raises is        *)
(* modelled by a result record whose kind names the exception.             *)
(***************************************************************************)
EXTENDS Integers, Sequences, FiniteSets, TLC

(***************************************************************************)
(* Bit operations on naturals.                                             *)
(***************************************************************************)
RECURSIVE BitXor(_, _)
BitXor(a, b) ==
    IF a = 0 THEN b
    ELSE IF b = 0 THEN a
    ELSE ((a + b) % 2) + 2 * BitXor(a \div 2, b \div 2)

(* A sequence given as a function over 1..n, evaluated to a tuple. *)
Vec(f) == f \o <<>>

(* Body at the value of val: a local variable assigned once and then read. *)
Bind(val, Body(_)) == CHOOSE out \in {Body(bound) : bound \in {val}} : TRUE

(* Lookup tables are tuples: entry i of a 0-based table is at index i + 1. *)
XorTable == Vec([a \in 1..256 |-> Vec([b \in 1..256 |-> BitXor(a - 1, b - 1)])])

Xor(a, b) == XorTable[a + 1][b + 1]

Reverse(s) == Vec([i \in 1..Len(s) |-> s[Len(s) + 1 - i]])

Zeros(n) == Vec([i \in 1..n |-> 0])

RECURSIVE XorAll(_)
XorAll(s) == IF Len(s) = 0 THEN 0 ELSE Xor(Head(s), XorAll(Tail(s)))

MaxOf(s) ==
    IF Len(s) = 0 THEN 0
    ELSE CHOOSE m \in {s[i] : i \in 1..Len(s)} : \A j \in 1..Len(s) : s[j] <= m

(***************************************************************************)
(* reedsolo, as RSCodec(nsym) configures it: GF(2^8), primitive polynomial *)
(* 0x11d, generator 2, first consecutive root 0.                           *)
(***************************************************************************)
field_charac == 255

RECURSIVE gf_mult_noLUT(_, _)
gf_mult_noLUT(x, y) ==
    IF y = 0 THEN 0
    ELSE LET x2 == IF 2 * x >= 256 THEN BitXor(2 * x, 285) ELSE 2 * x
         IN  BitXor(IF y % 2 = 1 THEN x ELSE 0, gf_mult_noLUT(x2, y \div 2))

(* init_tables fills gf_exp[i] with generator^i by repeated multiplication; *)
(* the same power is computed here by squaring.                             *)
RECURSIVE GeneratorPower(_)
GeneratorPower(i) ==
    IF i = 0 THEN 1
    ELSE LET h == GeneratorPower(i \div 2)
             sq == gf_mult_noLUT(h, h)
         IN  IF i % 2 = 1 THEN gf_mult_noLUT(sq, 2) ELSE sq

gf_exp_table ==
    Vec([i \in 1..(2 * field_charac) |-> GeneratorPower((i - 1) % field_charac)])

gf_exp(i) == gf_exp_table[i + 1]

gf_log_table ==
    LET e == gf_exp_table
    IN  Vec([x \in 1..(field_charac + 1) |->
               IF x = 1 THEN 0 ELSE CHOOSE i \in 0..(field_charac - 1) : e[i + 1] = x - 1])

gf_log(x) == gf_log_table[x + 1]

gf_mul(x, y) ==
    IF x = 0 \/ y = 0 THEN 0 ELSE gf_exp((gf_log(x) + gf_log(y)) % field_charac)

gf_div(x, y) ==
    IF x = 0 THEN 0 ELSE gf_exp((gf_log(x) + field_charac - gf_log(y)) % field_charac)

gf_pow(x, power) == gf_exp((gf_log(x) * power) % field_charac)

gf_inverse(x) == gf_exp(field_charac - gf_log(x))

gf_poly_scale(p, x) == Vec([i \in 1..Len(p) |-> gf_mul(p[i], x)])

gf_poly_add(p, q) ==
    LET n == IF Len(p) > Len(q) THEN Len(p) ELSE Len(q)
    IN  Vec([i \in 1..n |->
               Xor(IF i > n - Len(p) THEN p[i - (n - Len(p))] ELSE 0,
                   IF i > n - Len(q) THEN q[i - (n - Len(q))] ELSE 0)])

gf_poly_mul(p, q) ==
    Vec([k \in 1..(Len(p) + Len(q) - 1) |->
           XorAll(Vec([j \in 1..Len(q) |->
                         IF k - j + 1 >= 1 /\ k - j + 1 <= Len(p)
                         THEN gf_mul(p[k - j + 1], q[j]) ELSE 0]))])

RECURSIVE Horner(_, _, _, _)
Horner(poly, x, i, y) ==
    IF i > Len(poly) THEN y
    ELSE LET y2 == Xor(gf_mul(y, x), poly[i])
         IN  \* the test evaluates y2 before the next iteration
             IF y2 >= 0 THEN Horner(poly, x, i + 1, y2) ELSE y2

gf_poly_eval(poly, x) == Horner(poly, x, 2, poly[1])

RECURSIVE rs_generator_poly(_)
rs_generator_poly(nsym) ==
    IF nsym = 0 THEN <<1>>
    ELSE gf_poly_mul(rs_generator_poly(nsym - 1), <<1, gf_pow(2, nsym - 1)>>)

(* The synthetic division of rs_encode_msg: step i folds coefficient i of  *)
(* the working buffer into the nsym positions after it.                    *)
RECURSIVE EncodeSteps(_, _, _, _)
EncodeSteps(out, gen, i, n) ==
    IF i > n THEN out
    ELSE LET folded == IF out[i] = 0 THEN out
                       ELSE Vec([k \in 1..Len(out) |->
                                   IF k > i /\ k - i < Len(gen)
                                   THEN Xor(out[k], gf_mul(gen[k - i + 1], out[i]))
                                   ELSE out[k]])
         IN  \* the test evaluates the step before the next iteration
             IF Len(folded) > 0 THEN EncodeSteps(folded, gen, i + 1, n) ELSE folded

rs_encode_msg(msg_in, nsym) ==
    Bind(rs_generator_poly(nsym), LAMBDA gen :
    Bind(EncodeSteps(msg_in \o Zeros(Len(gen) - 1), gen, 1, Len(msg_in)), LAMBDA div :
         msg_in \o SubSeq(div, Len(msg_in) + 1, Len(div))))


(* Python's s[k] for a 0-based index k, negative k counting from the end.  *)
PyIndex(s, k) == IF k < 0 THEN s[Len(s) + k + 1] ELSE s[k + 1]

(* Python's s[:-n]: for n = 0 this is s[:0], the empty string.             *)
PyDropLast(s, n) == IF n = 0 \/ n >= Len(s) THEN <<>> ELSE SubSeq(s, 1, Len(s) - n)

RECURSIVE DropLeadingZeros(_)
DropLeadingZeros(s) ==
    IF Len(s) > 0 /\ Head(s) = 0 THEN DropLeadingZeros(Tail(s)) ELSE s

(* A library call either returns a value or raises.                        *)
Returned(value) == [ok |-> TRUE, value |-> value]

Raised(error) == [ok |-> FALSE, error |-> error]

rs_calc_syndromes(msg, nsym) ==
    <<0>> \o Vec([i \in 1..nsym |-> gf_poly_eval(msg, gf_pow(2, i - 1))])

(* Berlekamp-Massey: the body of iteration i (0-based) of the loop of      *)
(* rs_find_error_locator, from the pair <<err_loc, old_loc>> to the next.  *)
LocatorStep(synd, K, err_loc, old_loc) ==
    Bind(XorAll(<<PyIndex(synd, K)>> \o
           Vec([j \in 1..(Len(err_loc) - 1) |->
                  gf_mul(PyIndex(err_loc, 0 - (j + 1)), PyIndex(synd, K - j))])),
         LAMBDA delta :
    Bind(old_loc \o <<0>>, LAMBDA old1 :
         IF delta = 0 THEN <<err_loc, old1>>
         ELSE IF Len(old1) > Len(err_loc)
         THEN Bind(gf_poly_scale(old1, delta), LAMBDA new_loc :
              Bind(gf_poly_scale(err_loc, gf_inverse(delta)), LAMBDA old2 :
                   <<gf_poly_add(new_loc, gf_poly_scale(old2, delta)), old2>>))
         ELSE <<gf_poly_add(err_loc, gf_poly_scale(old1, delta)), old1>>))

RECURSIVE LocatorSteps(_, _, _, _, _)
LocatorSteps(synd, nsym, synd_shift, i, locs) ==
    IF i >= nsym THEN locs[1]
    ELSE LET next == LocatorStep(synd, i + synd_shift, locs[1], locs[2])
         IN  \* the test evaluates the step before the next iteration
             IF Len(next) = 2 THEN LocatorSteps(synd, nsym, synd_shift, i + 1, next)
             ELSE next

rs_find_error_locator(synd, nsym) ==
    Bind(DropLeadingZeros(
           LocatorSteps(synd, nsym, IF Len(synd) > nsym THEN Len(synd) - nsym ELSE 0,
                        0, <<<<1>>, <<1>>>>)), LAMBDA err_loc :
         IF (Len(err_loc) - 1) * 2 > nsym THEN Raised("Too many errors to correct")
         ELSE Returned(err_loc))

(* Chien search over the nmess positions of the received word.             *)
rs_find_errors(err_loc, nmess) ==
    Bind(SelectSeq(Vec([k \in 1..nmess |-> k - 1]),
                   LAMBDA i : gf_poly_eval(err_loc, gf_pow(2, i)) = 0), LAMBDA roots :
         IF Len(roots) # Len(err_loc) - 1
         THEN Raised("Too many (or few) errors found by Chien Search")
         ELSE Returned(Vec([k \in 1..Len(roots) |-> nmess - 1 - roots[k]])))

RECURSIVE rs_find_errata_locator(_)
rs_find_errata_locator(e_pos) ==
    IF Len(e_pos) = 0 THEN <<1>>
    ELSE gf_poly_mul(rs_find_errata_locator(SubSeq(e_pos, 1, Len(e_pos) - 1)),
                     gf_poly_add(<<1>>, <<gf_pow(2, e_pos[Len(e_pos)]), 0>>))

(* The remainder of synd * err_loc divided by x^(nsym+1): its last nsym+1  *)
(* coefficients.                                                           *)
rs_find_error_evaluator(synd, err_loc, nsym) ==
    Bind(gf_poly_mul(synd, err_loc), LAMBDA prod :
         IF Len(prod) <= nsym + 1 THEN prod
         ELSE SubSeq(prod, Len(prod) - nsym, Len(prod)))

(* Forney: err_loc_prime for position i, the product over j # i of         *)
(* 1 - Xi_inv * X[j].                                                      *)
RECURSIVE err_loc_prime(_, _, _, _)
err_loc_prime(X, i, j, acc) ==
    IF j > Len(X) THEN acc
    ELSE Bind(IF j = i THEN acc
              ELSE gf_mul(acc, Xor(1, gf_mul(gf_inverse(X[i]), X[j]))),
              LAMBDA product : err_loc_prime(X, i, j + 1, product))

(* E[err_pos[i]] = magnitude: a position listed twice keeps the last one.  *)
ErrataPolynomial(length, err_pos, magnitude) ==
    Vec([k \in 1..length |->
           IF \E i \in 1..Len(err_pos) : err_pos[i] = k - 1
           THEN magnitude[CHOOSE i \in 1..Len(err_pos) :
                            /\ err_pos[i] = k - 1
                            /\ \A j \in 1..Len(err_pos) : err_pos[j] = k - 1 => j <= i]
           ELSE 0])

(* Forney: the error magnitude at each located position.                   *)
rs_correct_errata(msg_in, synd, err_pos) ==
    Bind(Vec([i \in 1..Len(err_pos) |-> Len(msg_in) - 1 - err_pos[i]]), LAMBDA coef_pos :
    Bind(rs_find_errata_locator(coef_pos), LAMBDA err_loc :
    Bind(Reverse(rs_find_error_evaluator(Reverse(synd), err_loc, Len(err_loc) - 1)),
         LAMBDA err_eval :
    Bind(Vec([i \in 1..Len(coef_pos) |-> gf_pow(2, 0 - (field_charac - coef_pos[i]))]),
         LAMBDA X :
    Bind(Vec([i \in 1..Len(X) |-> err_loc_prime(X, i, 1, 1)]), LAMBDA prime :
         IF \E i \in 1..Len(X) : prime[i] = 0
         THEN Raised("Forney algorithm could not properly detect where the errors are located")
         ELSE Bind(Vec([i \in 1..Len(X) |->
                          gf_div(gf_mul(gf_pow(X[i], 1),
                                        gf_poly_eval(Reverse(err_eval), gf_inverse(X[i]))),
                                 prime[i])]), LAMBDA magnitude :
                   Returned(gf_poly_add(msg_in,
                              ErrataPolynomial(Len(msg_in), err_pos, magnitude)))))))))

CheckCorrected(fixed, nsym) ==
    IF ~fixed.ok THEN fixed
    ELSE IF MaxOf(rs_calc_syndromes(fixed.value, nsym)) > 0
    THEN Raised("Could not correct message")
    ELSE Returned(PyDropLast(fixed.value, nsym))

rs_correct_msg(msg_in, nsym) ==
    IF Len(msg_in) > field_charac THEN Raised("Message is too long")
    ELSE
    Bind(rs_calc_syndromes(msg_in, nsym), LAMBDA synd :
         IF MaxOf(synd) = 0 THEN Returned(PyDropLast(msg_in, nsym))
         ELSE
         Bind(rs_find_error_locator(Tail(synd), nsym), LAMBDA err_loc :
              IF ~err_loc.ok THEN err_loc
              ELSE
              Bind(rs_find_errors(Reverse(err_loc.value), Len(msg_in)), LAMBDA err_pos :
                   IF ~err_pos.ok THEN err_pos
                   ELSE Bind(rs_correct_errata(msg_in, synd, err_pos.value),
                             LAMBDA fixed : CheckCorrected(fixed, nsym)))))

(* RSCodec(nsym).encode / .decode work chunk by chunk; every byte string   *)
(* here fits the single chunk of at most 255 symbols.                      *)
RSCodec_encode(data, nsym) ==
    IF Len(data) = 0 THEN <<>> ELSE rs_encode_msg(data, nsym)

RSCodec_decode(data, nsym) ==
    IF Len(data) = 0 THEN Returned(<<>>) ELSE rs_correct_msg(data, nsym)

(***************************************************************************)
(* lib/fuzzy_extractor/extractor.py                                        *)
(*                                                                         *)
(* An embedding is the vector get_face_embedding returns for an image; its *)
(* coordinates are integers here (a fixed-point scale), of which only the  *)
(* comparison with the threshold matters.                                  *)
(***************************************************************************)
EMBEDDING_LEN == 128

BIT_THRESHOLD == 0

RS_SYMBOLS == 16

(* bits = (embedding > threshold).astype(np.uint8)                         *)
ThresholdBitsAtLeast(embedding, threshold) ==
    Vec([i \in 1..Len(embedding) |-> IF embedding[i] >= threshold THEN 1 ELSE 0])

ThresholdBits(embedding, threshold) ==
    Vec([i \in 1..Len(embedding) |-> IF embedding[i] > threshold THEN 1 ELSE 0])

(* int(bit_string, 2).to_bytes((len(bit_string) + 7) // 8, 'big'): the    *)
(* bit string, as a number, written on whole bytes, so that the bits are   *)
(* right-aligned and zeros fill the front of the first byte.  int('', 2)   *)
(* raises ValueError.                                                      *)
BitsToBytes(bits, nbytes) ==
    Vec([j \in 1..nbytes |->
           LET B(p) == IF p <= 8 * nbytes - Len(bits) THEN 0
                       ELSE bits[p - (8 * nbytes - Len(bits))]
               o    == 8 * (j - 1)
           IN  128 * B(o + 1) + 64 * B(o + 2) + 32 * B(o + 3) + 16 * B(o + 4)
               + 8 * B(o + 5) + 4 * B(o + 6) + 2 * B(o + 7) + B(o + 8)])

embedding_to_bits(embedding) ==
    Bind(ThresholdBits(embedding, BIT_THRESHOLD), LAMBDA bits :
         IF Len(bits) = 0 THEN Raised("ValueError")
         ELSE Returned(BitsToBytes(bits, (Len(bits) + 7) \div 8)))

(* hashlib.sha256(data).hexdigest(): a collision-free digest of the bytes. *)
sha256_hexdigest(data) == <<"sha256", data>>

(* Text is a sequence of one-character strings.                            *)
Digits == <<"0", "1", "2", "3", "4", "5", "6", "7", "8", "9">>

RECURSIVE DecimalText(_)
DecimalText(n) ==
    IF n < 10 THEN <<Digits[n + 1]>>
    ELSE DecimalText(n \div 10) \o <<Digits[(n % 10) + 1]>>

RECURSIVE JoinNumbers(_)
JoinNumbers(numbers) ==
    IF Len(numbers) = 0 THEN <<>>
    ELSE IF Len(numbers) = 1 THEN DecimalText(numbers[1])
    ELSE DecimalText(numbers[1]) \o <<",", " ">> \o JoinNumbers(Tail(numbers))

RsSymbolsKey == <<"\"", "r", "s", "_", "s", "y", "m", "b", "o", "l", "s", "\"">>

HelperDataKey ==
    <<"\"", "h", "e", "l", "p", "e", "r", "_", "d", "a", "t", "a", "\"">>

(* json.dumps({"rs_symbols": ..., "helper_data": [...]})                   *)
json_dumps(obj) ==
    <<"{">> \o RsSymbolsKey \o <<":", " ">> \o DecimalText(obj.rs_symbols)
    \o <<",", " ">> \o HelperDataKey \o <<":", " ", "[">>
    \o JoinNumbers(obj.helper_data) \o <<"]", "}">>

(* json.loads on the texts json_dumps writes: a scanner over the text that *)
(* reads the two members back; any other text is a JSONDecodeError.        *)
StartsWith(text, pos, literal) ==
    /\ pos + Len(literal) - 1 <= Len(text)
    /\ SubSeq(text, pos, pos + Len(literal) - 1) = literal

IsDigit(c) == \E d \in 1..10 : Digits[d] = c

DigitValue(c) == (CHOOSE d \in 1..10 : Digits[d] = c) - 1

(* The number starting at pos: [value, next], next = pos when none starts. *)
RECURSIVE ScanNumber(_, _, _)
ScanNumber(text, pos, value) ==
    IF pos <= Len(text) /\ IsDigit(text[pos])
    THEN ScanNumber(text, pos + 1, 10 * value + DigitValue(text[pos]))
    ELSE [value |-> value, next |-> pos]

(* The list items from pos up to the closing bracket.                      *)
RECURSIVE ScanItems(_, _, _)
ScanItems(text, pos, items) ==
    LET number == ScanNumber(text, pos, 0)
    IN  IF number.next = pos THEN [ok |-> FALSE]
        ELSE IF StartsWith(text, number.next, <<",", " ">>)
             THEN ScanItems(text, number.next + 2, Append(items, number.value))
             ELSE IF StartsWith(text, number.next, <<"]">>)
                  THEN [ok |-> TRUE, items |-> Append(items, number.value),
                        next |-> number.next + 1]
                  ELSE [ok |-> FALSE]

JsonHead == <<"{">> \o RsSymbolsKey \o <<":", " ">>

JsonMid == <<",", " ">> \o HelperDataKey \o <<":", " ", "[">>

json_loads(text) ==
    Bind(ScanNumber(text, Len(JsonHead) + 1, 0), LAMBDA count :
    Bind(IF StartsWith(text, count.next + Len(JsonMid), <<"]">>)
         THEN [ok |-> TRUE, items |-> <<>>, next |-> count.next + Len(JsonMid) + 1]
         ELSE ScanItems(text, count.next + Len(JsonMid), <<>>), LAMBDA list :
         IF /\ StartsWith(text, 1, JsonHead)
            /\ count.next > Len(JsonHead) + 1
            /\ StartsWith(text, count.next, JsonMid)
            /\ list.ok
            /\ StartsWith(text, list.next, <<"}">>)
            /\ list.next = Len(text)
         THEN Returned([rs_symbols |-> count.value, helper_data |-> list.items])
         ELSE Raised("JSONDecodeError")))

(* bytes(list): every item must be in range(256).                          *)
bytes(items) ==
    IF \A i \in 1..Len(items) : items[i] \in 0..255
    THEN Returned(items) ELSE Raised("ValueError")

(* fuzzy_gen, from the embedding of its image on.  The helper with one     *)
(* symbol too many is the slice codeword[len(bit_bytes) - 1:].             *)
fuzzy_gen_wide_tail(embedding) ==
    Bind(embedding_to_bits(embedding), LAMBDA bit_bytes :
         IF ~bit_bytes.ok THEN bit_bytes
         ELSE
         Bind(RSCodec_encode(bit_bytes.value, RS_SYMBOLS), LAMBDA codeword :
              Returned([R |-> sha256_hexdigest(bit_bytes.value),
                        P |-> json_dumps(
                                [rs_symbols  |-> RS_SYMBOLS,
                                 helper_data |-> SubSeq(codeword, Len(bit_bytes.value),
                                                        Len(codeword))])])))

fuzzy_gen(embedding) ==
    Bind(embedding_to_bits(embedding), LAMBDA bit_bytes :
         IF ~bit_bytes.ok THEN bit_bytes
         ELSE
         Bind(RSCodec_encode(bit_bytes.value, RS_SYMBOLS), LAMBDA codeword :
              Returned([R |-> sha256_hexdigest(bit_bytes.value),
                        P |-> json_dumps(
                                [rs_symbols  |-> RS_SYMBOLS,
                                 helper_data |-> SubSeq(codeword, Len(bit_bytes.value) + 1,
                                                        Len(codeword))])])))

RecoveryError == Raised("ValueError: too many errors, recovery impossible")

(* fuzzy_recover with the parity bytes put before the data bytes.          *)
fuzzy_recover_parity_first(embedding, p_json) ==
    Bind(json_loads(p_json), LAMBDA data :
         IF ~data.ok THEN data
         ELSE
         Bind(bytes(data.value.helper_data), LAMBDA helper :
              IF ~helper.ok THEN helper
              ELSE
              Bind(embedding_to_bits(embedding), LAMBDA bit_bytes :
                   IF ~bit_bytes.ok THEN bit_bytes
                   ELSE
                   Bind(RSCodec_decode(helper.value \o bit_bytes.value,
                                       data.value.rs_symbols), LAMBDA recovered :
                        IF ~recovered.ok THEN RecoveryError
                        ELSE Returned(sha256_hexdigest(recovered.value))))))

(* fuzzy_recover without its try/except: the codec's error reaches the     *)
(* caller.                                                                 *)
fuzzy_recover_unguarded(embedding, p_json) ==
    Bind(json_loads(p_json), LAMBDA data :
         IF ~data.ok THEN data
         ELSE
         Bind(bytes(data.value.helper_data), LAMBDA helper :
              IF ~helper.ok THEN helper
              ELSE
              Bind(embedding_to_bits(embedding), LAMBDA bit_bytes :
                   IF ~bit_bytes.ok THEN bit_bytes
                   ELSE
                   Bind(RSCodec_decode(bit_bytes.value \o helper.value,
                                       data.value.rs_symbols), LAMBDA recovered :
                        IF ~recovered.ok THEN recovered
                        ELSE Returned(sha256_hexdigest(recovered.value))))))

(* fuzzy_recover falling back on the uncorrected bytes when decoding fails. *)
fuzzy_recover_fallback(embedding, p_json) ==
    Bind(json_loads(p_json), LAMBDA data :
         IF ~data.ok THEN data
         ELSE
         Bind(bytes(data.value.helper_data), LAMBDA helper :
              IF ~helper.ok THEN helper
              ELSE
              Bind(embedding_to_bits(embedding), LAMBDA bit_bytes :
                   IF ~bit_bytes.ok THEN bit_bytes
                   ELSE
                   Bind(RSCodec_decode(bit_bytes.value \o helper.value,
                                       data.value.rs_symbols), LAMBDA recovered :
                        IF ~recovered.ok
                        THEN Returned(sha256_hexdigest(bit_bytes.value))
                        ELSE Returned(sha256_hexdigest(recovered.value))))))

(* fuzzy_recover, from the embedding of its image on.  Whatever the decode *)
(* raises, the bare except turns into the one ValueError.                  *)
fuzzy_recover(embedding, p_json) ==
    Bind(json_loads(p_json), LAMBDA data :
         IF ~data.ok THEN data
         ELSE
         Bind(bytes(data.value.helper_data), LAMBDA helper :
              IF ~helper.ok THEN helper
              ELSE
              Bind(embedding_to_bits(embedding), LAMBDA bit_bytes :
                   IF ~bit_bytes.ok THEN bit_bytes
                   ELSE
                   Bind(RSCodec_decode(bit_bytes.value \o helper.value,
                                       data.value.rs_symbols), LAMBDA recovered :
                        IF ~recovered.ok THEN RecoveryError
                        ELSE Returned(sha256_hexdigest(recovered.value))))))


(***************************************************************************)
(* State.                                                                  *)
(*   ledger    what the chaincode stores per nickname (StoreHelperData,    *)
(*             GetHelperData): the helper JSON text, or NoData             *)
(*   enrolled  per nickname, the embedding generate_key was called on and  *)
(*             the key it returned (history, not read by the program)      *)
(*   call      the call in progress with its outcome, or Idle              *)
(*   sealed    the dict encrypt_helper_data returned, as stored (its three *)
(*             base64 texts, sequences of character codes), or Nothing     *)
(*   origin    the passphrase and helper bytes sealed was made from, and   *)
(*             whether a bit of sealed was flipped since (history)         *)
(*   oracle    the (key, nonce, ciphertext, plaintext) tuples AES-GCM      *)
(*             encryption produced                                         *)
(***************************************************************************)
VARIABLES ledger, enrolled, call, sealed, origin, oracle

vars == <<ledger, enrolled, call, sealed, origin, oracle>>

NoData == "NoData"

(* No sealed record yet.                                                   *)
Nothing == [nothing |-> TRUE]

Idle == [op |-> "idle"]

Nicknames == {"alice", "bob"}

(***************************************************************************)
(* Inputs of the fuzzy extractor: two subjects and noisy samples of them.  *)
(***************************************************************************)
(* The largest number of leading bytes a sample's noise touches.           *)
MaxNoisyBytes == 9

(* The coordinate, within each touched byte, the noise changes.            *)
NoiseBit == 3

FaceA == Vec([i \in 1..EMBEDDING_LEN |-> ((i * 37) % 11) - 5])

(* A second subject whose bit string differs from FaceA's in its last nine *)
(* bytes, by the data part of a minimum-weight codeword: the two parity    *)
(* strings then differ in RS_SYMBOLS \div 2 symbols only.                  *)
TwinMask == <<0, 0, 0, 0, 0, 0, 0, 173, 237, 34, 13, 52, 134, 183, 202, 1>>

(* The coordinate moved across the threshold.                              *)
Crossed(x) == IF x > BIT_THRESHOLD THEN BIT_THRESHOLD - x ELSE BIT_THRESHOLD + 1 - x

MaskBit(mask, i) ==
    LET byte  == mask[((i - 1) \div 8) + 1]
        shift == 7 - ((i - 1) % 8)
    IN  (byte \div (2 ^ shift)) % 2

FaceTwin ==
    Vec([i \in 1..EMBEDDING_LEN |->
           IF MaskBit(TwinMask, i) = 1 THEN Crossed(FaceA[i]) ELSE FaceA[i]])

Faces == {FaceA, FaceTwin}

(* A sample of a face: in each of the first k bytes one coordinate either  *)
(* crosses the threshold or falls onto it.                                 *)
Sample(face, k, mode) ==
    Vec([i \in 1..Len(face) |->
           IF (i - 1) \div 8 < k /\ (i - 1) % 8 = NoiseBit
           THEN IF mode = "cross" THEN Crossed(face[i]) ELSE BIT_THRESHOLD
           ELSE face[i]])

Samples ==
    {Sample(face, k, mode) : face \in Faces, k \in 0..MaxNoisyBytes,
                             mode \in {"cross", "threshold"}}

(***************************************************************************)
(* The chaincode's two functions, as the client uses them: the helper text *)
(* is stored under the nickname and read back as stored.                   *)
(***************************************************************************)
StoreHelperData(store, p, nickname) == [store EXCEPT ![nickname] = p]

GetHelperData(store, nickname) == store[nickname]

(***************************************************************************)
(* biomask/client.py: generate_key and restore_key.                        *)
(***************************************************************************)
GenerateKey(embedding, nickname) ==
    /\ call = Idle
    /\ ledger[nickname] = NoData
    /\ \E gen \in {fuzzy_gen(embedding)} :
           /\ gen.ok
           /\ ledger' = StoreHelperData(ledger, gen.value.P, nickname)
           /\ enrolled' = [enrolled EXCEPT ![nickname] =
                             [embedding |-> embedding, secret |-> gen.value.R]]
           /\ call' = [op |-> "generate_key", nickname |-> nickname,
                       embedding |-> embedding, helper |-> gen.value.P,
                       out |-> Returned(gen.value.R)]
    /\ UNCHANGED <<sealed, origin, oracle>>

RestoreKey(embedding, nickname) ==
    /\ call = Idle
    /\ ledger[nickname] # NoData
    /\ \E p \in {GetHelperData(ledger, nickname)} :
           call' = [op |-> "restore_key", nickname |-> nickname,
                    embedding |-> embedding, helper |-> p,
                    out |-> fuzzy_recover(embedding, p)]
    /\ UNCHANGED <<ledger, enrolled, sealed, origin, oracle>>

(* The caller takes the outcome.                                           *)
Return ==
    /\ call # Idle
    /\ call' = Idle
    /\ UNCHANGED <<ledger, enrolled, sealed, origin, oracle>>

Init ==
    /\ ledger = [n \in Nicknames |-> NoData]
    /\ enrolled = [n \in Nicknames |-> NoData]
    /\ call = Idle
    /\ sealed = Nothing
    /\ origin = Nothing
    /\ oracle = {}

Next ==
    \/ \E face \in Faces, n \in Nicknames : GenerateKey(face, n)
    \/ \E sample \in Samples, n \in Nicknames : RestoreKey(sample, n)
    \/ Return

Spec == Init /\ [][Next]_vars

(***************************************************************************)
(* The binarizer and the generator called directly, on vectors of any      *)
(* length.                                                                 *)
(***************************************************************************)
(* The longest of the short embeddings.                                    *)
MaxEmbLen == 6

(* The longest of the patterned embeddings.                                *)
MaxPatternLen == 18

Coordinates == {BIT_THRESHOLD - 1, BIT_THRESHOLD, BIT_THRESHOLD + 1}

ShortEmbeddings == UNION {[1..n -> Coordinates] : n \in 0..MaxEmbLen}

(* Longer vectors whose coordinates cycle through Coordinates with step k. *)
PatternEmbeddings ==
    {Vec([i \in 1..n |-> BIT_THRESHOLD - 1 + ((i * k) % 3)]) :
       n \in (MaxEmbLen + 1)..MaxPatternLen, k \in 1..2}

Embeddings == ShortEmbeddings \cup PatternEmbeddings \cup Samples

Binarize(embedding) ==
    /\ call = Idle
    /\ call' = [op |-> "embedding_to_bits", embedding |-> embedding,
                out |-> embedding_to_bits(embedding)]
    /\ UNCHANGED <<ledger, enrolled, sealed, origin, oracle>>

Generate(embedding) ==
    /\ call = Idle
    /\ call' = [op |-> "fuzzy_gen", embedding |-> embedding,
                out |-> fuzzy_gen(embedding)]
    /\ UNCHANGED <<ledger, enrolled, sealed, origin, oracle>>

BinNext ==
    \/ \E e \in Embeddings : Binarize(e)
    \/ \E e \in Embeddings : Generate(e)
    \/ Return

BinSpec == Init /\ [][BinNext]_vars

(***************************************************************************)
(* Properties of the fuzzy extractor.                                      *)
(***************************************************************************)
(* The number of byte symbols in which two equally long strings differ.    *)
SymbolDistance(a, b) == Cardinality({i \in 1..Len(a) : a[i] # b[i]})

BitBytes(embedding) == embedding_to_bits(embedding).value

HelperRecord(p_json) == json_loads(p_json).value

RestoreWithin ==
    /\ call.op = "restore_key"
    /\ SymbolDistance(BitBytes(call.embedding),
                      BitBytes(enrolled[call.nickname].embedding)) <= RS_SYMBOLS \div 2

RestoreBeyond ==
    /\ call.op = "restore_key"
    /\ SymbolDistance(BitBytes(call.embedding),
                      BitBytes(enrolled[call.nickname].embedding)) > RS_SYMBOLS \div 2

(* C1: a restore_key call whose sample binarizes to bytes differing from   *)
(* the enrolled ones in at most floor(K/2) byte symbols reads from the     *)
(* ledger the helper text fuzzy_gen made at enrolment and returns exactly  *)
(* the secret generate_key returned, which is fuzzy_gen's; fuzzy_recover   *)
(* on that sample and on fuzzy_gen's helper returns it as well.            *)
RoundTripIdentity ==
    RestoreWithin =>
      \E subject \in {enrolled[call.nickname]} :
      \E gen \in {fuzzy_gen(subject.embedding)} :
        /\ gen.ok
        /\ subject.secret = gen.value.R
        /\ call.helper = gen.value.P
        /\ call.out = Returned(gen.value.R)
        /\ fuzzy_recover(call.embedding, gen.value.P) = Returned(gen.value.R)

(* A restore at exactly floor(K/2) differing symbols returned the key.     *)
RoundTripAtBound ==
    /\ call.op = "restore_key"
    /\ SymbolDistance(BitBytes(call.embedding),
                      BitBytes(enrolled[call.nickname].embedding)) = RS_SYMBOLS \div 2
    /\ call.out = Returned(enrolled[call.nickname].secret)

(* C2, as stated: a restore whose sample differs from the enrolled bytes   *)
(* in more than floor(K/2) byte symbols raises the recovery error.         *)
FailureBeyondBound == RestoreBeyond => call.out = RecoveryError

(* C2, amended: beyond floor(K/2) differing symbols a restore never        *)
(* returns the enrolled secret: it raises the recovery error, or returns   *)
(* the hash of another data segment, one whose codeword is within          *)
(* floor(K/2) symbols of the candidate codeword.                           *)
BeyondBoundNeverEnrolled ==
    RestoreBeyond =>
      \/ call.out = RecoveryError
      \/ /\ call.out.ok
         /\ call.out.value # enrolled[call.nickname].secret
         /\ \E data \in {call.out.value[2]} :
              /\ call.out.value = sha256_hexdigest(data)
              /\ data # BitBytes(enrolled[call.nickname].embedding)
              /\ SymbolDistance(
                   rs_encode_msg(data, RS_SYMBOLS),
                   BitBytes(call.embedding) \o HelperRecord(call.helper).helper_data)
                 <= RS_SYMBOLS \div 2

(* A restore beyond the bound returned a secret.                           *)
SilentWrongSecret == RestoreBeyond /\ call.out.ok

HelperDataShape ==
    call.op = "fuzzy_gen" /\ call.out.ok =>
      \E data \in {BitBytes(call.embedding)} :
      \E helper \in {json_loads(call.out.value.P)} :
        /\ helper.ok
        /\ helper.value.rs_symbols = RS_SYMBOLS
        /\ Len(helper.value.helper_data) = RS_SYMBOLS
        /\ data \o helper.value.helper_data = RSCodec_encode(data, RS_SYMBOLS)
        /\ MaxOf(rs_calc_syndromes(data \o helper.value.helper_data, RS_SYMBOLS)) = 0
        /\ call.out.value.R = sha256_hexdigest(data)

(* fuzzy_gen returned for an embedding of the configured dimension.        *)
HelperMadeForFace ==
    /\ call.op = "fuzzy_gen"
    /\ call.out.ok
    /\ Len(call.embedding) = EMBEDDING_LEN

(***************************************************************************)
(* Properties of the binarizer.                                            *)
(***************************************************************************)
(* The bit of a byte at a position, position 7 the most significant.       *)
ByteBit(byte, position) == (byte \div (2 ^ position)) % 2

(* Bit i (0-based) of a byte string read most-significant-bit-first.       *)
StringBit(string, i) == ByteBit(string[(i \div 8) + 1], 7 - (i % 8))

BytesFor(n) == (n + 7) \div 8

(* C9, as stated: for an embedding of any length N the binarizer returns   *)
(* ceil(N/8) bytes in which bit i, at byte i div 8 and position            *)
(* 7 - (i mod 8), is 1 exactly when coordinate i is above the threshold.   *)
BinarizerLayoutAnyLength ==
    call.op = "embedding_to_bits" =>
      /\ call.out.ok
      /\ Len(call.out.value) = BytesFor(Len(call.embedding))
      /\ \A i \in 0..(Len(call.embedding) - 1) :
           StringBit(call.out.value, i) = 1 <=> call.embedding[i + 1] > BIT_THRESHOLD

(* C9, amended: for an embedding of length N >= 1 the binarizer returns    *)
(* ceil(N/8) bytes holding the bit string right-aligned: with              *)
(* pad = 8 * ceil(N/8) - N, the first pad bits are 0 and bit pad + i is 1  *)
(* exactly when coordinate i is strictly above the threshold (pad = 0, the *)
(* stated layout, when 8 divides N); for N = 0 it raises ValueError.       *)
BinarizerLayoutRightAligned ==
    call.op = "embedding_to_bits" =>
      \E n \in {Len(call.embedding)} :
        IF n = 0 THEN call.out = Raised("ValueError")
        ELSE /\ call.out.ok
             /\ Len(call.out.value) = BytesFor(n)
             /\ \A i \in 0..(8 * BytesFor(n) - n - 1) : StringBit(call.out.value, i) = 0
             /\ \A i \in 0..(n - 1) :
                  StringBit(call.out.value, 8 * BytesFor(n) - n + i) = 1
                  <=> call.embedding[i + 1] > BIT_THRESHOLD

(* The binarizer returned for a length 8 does not divide, with a           *)
(* coordinate on the threshold and a coordinate above it.                  *)
PaddedBitString ==
    /\ call.op = "embedding_to_bits"
    /\ call.out.ok
    /\ Len(call.embedding) % 8 # 0
    /\ \E i \in 1..Len(call.embedding) : call.embedding[i] = BIT_THRESHOLD
    /\ \E i \in 1..Len(call.embedding) : call.embedding[i] > BIT_THRESHOLD

(* C6, as stated: binarizing, or generating from, an embedding whose       *)
(* length is not EMBEDDING_LEN fails and produces nothing.                 *)
DimensionMismatchRaised ==
    /\ call.op \in {"embedding_to_bits", "fuzzy_gen"}
    /\ Len(call.embedding) # EMBEDDING_LEN
    => ~call.out.ok

(***************************************************************************)
(* lib/passphrase/encryption.py                                            *)
(*                                                                         *)
(* base64.b64encode and base64.b64decode on texts given as sequences of    *)
(* character codes.                                                        *)
(***************************************************************************)
B64Alphabet ==
    Vec([i \in 1..64 |-> IF i <= 26 THEN 64 + i
                         ELSE IF i <= 52 THEN 70 + i
                         ELSE IF i <= 62 THEN i - 5
                         ELSE IF i = 63 THEN 43 ELSE 47])

BASE64_PAD == 61

(* The three bytes of group g (0-based) as one number, missing bytes 0.    *)
B64Group(data, g) ==
    65536 * data[3 * g + 1]
    + 256 * (IF 3 * g + 2 <= Len(data) THEN data[3 * g + 2] ELSE 0)
    + (IF 3 * g + 3 <= Len(data) THEN data[3 * g + 3] ELSE 0)

b64encode(data) ==
    Vec([k \in 1..(4 * ((Len(data) + 2) \div 3)) |->
           IF 3 * ((k - 1) \div 4) + ((k - 1) % 4) > Len(data) THEN BASE64_PAD
           ELSE B64Alphabet[((B64Group(data, (k - 1) \div 4)
                                \div (64 ^ (3 - ((k - 1) % 4)))) % 64) + 1]])

(* table_a2b_base64: the value of a character, 64 for one outside the      *)
(* alphabet.                                                               *)
table_a2b_base64 ==
    Vec([c \in 1..128 |->
           IF \E v \in 1..64 : B64Alphabet[v] = c - 1
           THEN (CHOOSE v \in 1..64 : B64Alphabet[v] = c - 1) - 1
           ELSE 64])

(* One character of binascii.a2b_base64 in its default, non-strict mode:   *)
(* padding that completes a quad ends the parse, a character outside the   *)
(* alphabet is skipped, a data character adds its six bits.                *)
A2BStep(this_ch, st) ==
    IF st.done THEN st
    ELSE IF this_ch = BASE64_PAD
    THEN IF st.quad_pos >= 2 /\ st.quad_pos + st.pads + 1 >= 4
         THEN [st EXCEPT !.done = TRUE]
         ELSE [st EXCEPT !.pads = IF st.quad_pos >= 2 THEN st.pads + 1 ELSE st.pads]
    ELSE IF table_a2b_base64[this_ch + 1] >= 64 THEN st
    ELSE Bind(table_a2b_base64[this_ch + 1], LAMBDA six :
         IF st.quad_pos = 0
         THEN [st EXCEPT !.pads = 0, !.quad_pos = 1, !.leftchar = six]
         ELSE IF st.quad_pos = 1
         THEN [st EXCEPT !.pads = 0, !.quad_pos = 2, !.leftchar = six % 16,
                         !.bin_data = Append(@, 4 * st.leftchar + (six \div 16))]
         ELSE IF st.quad_pos = 2
         THEN [st EXCEPT !.pads = 0, !.quad_pos = 3, !.leftchar = six % 4,
                         !.bin_data = Append(@, 16 * st.leftchar + (six \div 4))]
         ELSE [st EXCEPT !.pads = 0, !.quad_pos = 0, !.leftchar = 0,
                         !.bin_data = Append(@, 64 * st.leftchar + six)])

RECURSIVE A2BSteps(_, _, _)
A2BSteps(ascii_data, i, st) ==
    IF i > Len(ascii_data) THEN st
    ELSE LET next == A2BStep(ascii_data[i], st)
         IN  \* the test evaluates the step before the next iteration
             IF next.quad_pos >= 0 THEN A2BSteps(ascii_data, i + 1, next) ELSE next

a2b_base64(ascii_data) ==
    Bind(A2BSteps(ascii_data, 1,
                  [quad_pos |-> 0, leftchar |-> 0, pads |-> 0,
                   bin_data |-> <<>>, done |-> FALSE]), LAMBDA st :
         IF ~st.done /\ st.quad_pos # 0
         THEN Raised("binascii.Error")
         ELSE Returned(st.bin_data))

(* b64decode of a str: the text is encoded as ASCII first.                 *)
b64decode(text) ==
    IF \E i \in 1..Len(text) : text[i] >= 128
    THEN Raised("ValueError")
    ELSE a2b_base64(text)

(***************************************************************************)
(* Scrypt and AES-GCM.  The derived key is a term over the passphrase      *)
(* bytes and the salt, so that two keys are equal only for equal inputs.   *)
(* AES-GCM is an ideal authenticated cipher: a ciphertext is the plaintext *)
(* under a pad followed by a 16-byte tag, and decryption accepts exactly   *)
(* the (key, nonce, ciphertext) triples that encryption produced, which    *)
(* the variable oracle records.                                            *)
(***************************************************************************)
Scrypt_derive_salt_only(passphrase, salt) == <<"scrypt", <<>>, salt>>

Scrypt_derive(passphrase, salt) == <<"scrypt", passphrase, salt>>

RECURSIVE SumBytes(_)
SumBytes(s) == IF Len(s) = 0 THEN 0 ELSE Head(s) + SumBytes(Tail(s))

PadByte(key, nonce, i) ==
    (SumBytes(key[2]) + SumBytes(key[3]) + SumBytes(nonce) + 29 * i) % 256

AESGCM_encrypt(key, nonce, data) ==
    Vec([i \in 1..Len(data) |-> Xor(data[i], PadByte(key, nonce, i))])
    \o Vec([j \in 1..16 |-> PadByte(key, nonce, Len(data) + SumBytes(data) + j)])

AESGCM_decrypt(key, nonce, data, sealing) ==
    IF Len(nonce) < 8 \/ Len(nonce) > 128 THEN Raised("ValueError")
    ELSE IF \E e \in sealing : e.key = key /\ e.nonce = nonce /\ e.ciphertext = data
    THEN Returned((CHOOSE e \in sealing :
                     e.key = key /\ e.nonce = nonce /\ e.ciphertext = data).plaintext)
    ELSE Raised("InvalidTag")

(* encrypt_helper_data, given what its two os.urandom calls returned.  The *)
(* variant stores the nonce's text under "salt" and the salt's under       *)
(* "nonce".                                                                *)
encrypt_helper_data_swapped(passphrase, helper_data, salt, nonce) ==
    [salt       |-> b64encode(nonce),
     nonce      |-> b64encode(salt),
     ciphertext |-> b64encode(AESGCM_encrypt(Scrypt_derive(passphrase, salt),
                                             nonce, helper_data))]

encrypt_helper_data(passphrase, helper_data, salt, nonce) ==
    [salt       |-> b64encode(salt),
     nonce      |-> b64encode(nonce),
     ciphertext |-> b64encode(AESGCM_encrypt(Scrypt_derive(passphrase, salt),
                                             nonce, helper_data))]

decrypt_helper_data(passphrase, encrypted, sealing) ==
    Bind(b64decode(encrypted.salt), LAMBDA salt :
         IF ~salt.ok THEN salt
         ELSE
         Bind(b64decode(encrypted.nonce), LAMBDA nonce :
              IF ~nonce.ok THEN nonce
              ELSE
              Bind(b64decode(encrypted.ciphertext), LAMBDA ciphertext :
                   IF ~ciphertext.ok THEN ciphertext
                   ELSE AESGCM_decrypt(Scrypt_derive(passphrase, salt.value),
                                       nonce.value, ciphertext.value, sealing))))

(***************************************************************************)
(* Inputs of the protector.                                                *)
(***************************************************************************)
(* The longest helper byte string sealed.                                  *)
MaxHelperLen == 2

HelperText == <<123, 34, 114, 115, 95, 115, 121, 109>>

Helpers == {SubSeq(HelperText, 1, n) : n \in 0..MaxHelperLen}

Passphrases == {<<112, 119, 49>>, <<112, 119, 50>>}

(* What os.urandom(16) and os.urandom(12) may return.                      *)
Salts == {Vec([i \in 1..16 |-> (i * 53) % 256]), Vec([i \in 1..16 |-> (i * 97 + 2) % 256])}

Nonces == {Vec([i \in 1..12 |-> (i * 41) % 256]), Vec([i \in 1..12 |-> 255 - i])}

Fields == {"salt", "nonce", "ciphertext"}

(* The length of the longest stored text, the ciphertext of the longest    *)
(* helper with its 16-byte tag.                                            *)
MaxStoredLen == 4 * ((16 + MaxHelperLen + 2) \div 3)

Seal(passphrase, helper_data, salt, nonce) ==
    /\ call = Idle
    /\ sealed = Nothing
    /\ sealed' = encrypt_helper_data(passphrase, helper_data, salt, nonce)
    /\ oracle' = oracle \cup
                 {[key        |-> Scrypt_derive(passphrase, salt),
                   nonce      |-> nonce,
                   ciphertext |-> AESGCM_encrypt(Scrypt_derive(passphrase, salt),
                                                 nonce, helper_data),
                   plaintext  |-> helper_data]}
    /\ origin' = [passphrase |-> passphrase, helper |-> helper_data, tampered |-> FALSE]
    /\ call' = [op |-> "encrypt_helper_data", passphrase |-> passphrase,
                out |-> Returned(sealed')]
    /\ UNCHANGED <<ledger, enrolled>>

(* One bit of one character of one stored field is flipped, once.          *)
Tamper(field, i, bit) ==
    /\ call = Idle
    /\ sealed # Nothing
    /\ ~origin.tampered
    /\ i \in 1..Len(sealed[field])
    /\ sealed' = [sealed EXCEPT ![field][i] = Xor(@, 2 ^ bit)]
    /\ origin' = [origin EXCEPT !.tampered = TRUE]
    /\ UNCHANGED <<ledger, enrolled, call, oracle>>

Open(passphrase) ==
    /\ call = Idle
    /\ sealed # Nothing
    /\ call' = [op |-> "decrypt_helper_data", passphrase |-> passphrase,
                out |-> decrypt_helper_data(passphrase, sealed, oracle)]
    /\ UNCHANGED <<ledger, enrolled, sealed, origin, oracle>>

SealNext ==
    \/ \E p \in Passphrases, h \in Helpers, salt \in Salts, nonce \in Nonces :
         Seal(p, h, salt, nonce)
    \/ \E field \in Fields, i \in 1..MaxStoredLen, bit \in 0..7 : Tamper(field, i, bit)
    \/ \E p \in Passphrases : Open(p)
    \/ Return

SealSpec == Init /\ [][SealNext]_vars

(***************************************************************************)
(* Properties of the protector.                                            *)
(***************************************************************************)
(* C4: opening what was sealed, as stored and with the passphrase it was   *)
(* sealed under, returns exactly the helper bytes that were sealed,        *)
(* whichever salt and nonce the seal drew.                                 *)
SealOpenRoundTrip ==
    /\ call.op = "decrypt_helper_data"
    /\ ~origin.tampered
    /\ call.passphrase = origin.passphrase
    => call.out = Returned(origin.helper)

(* An open returned the non-empty helper that was sealed.                  *)
HelperOpened ==
    /\ call.op = "decrypt_helper_data"
    /\ ~origin.tampered
    /\ call.passphrase = origin.passphrase
    /\ Len(origin.helper) > 0
    /\ call.out = Returned(origin.helper)

(* C5: opening what was sealed, as stored, with another passphrase than it *)
(* was sealed under fails with the cipher's authentication error and       *)
(* returns no value.                                                       *)
WrongPassphraseRejected ==
    /\ call.op = "decrypt_helper_data"
    /\ ~origin.tampered
    /\ call.passphrase # origin.passphrase
    => call.out = Raised("InvalidTag")

(* An open with another passphrase was refused.                            *)
WrongPassphraseTried ==
    /\ call.op = "decrypt_helper_data"
    /\ ~origin.tampered
    /\ call.passphrase # origin.passphrase
    /\ ~call.out.ok

(* C3, as stated: after one bit of the stored salt, nonce or ciphertext    *)
(* was flipped, opening with the right passphrase fails and returns no     *)
(* value.                                                                  *)
TamperDetected ==
    /\ call.op = "decrypt_helper_data"
    /\ origin.tampered
    /\ call.passphrase = origin.passphrase
    => ~call.out.ok

=============================================================================
